---- MODULE Spec2Model ----
(***************************************************************************)
(* Model of go-vc-auth: the resilient remote signer (package vault), the   *)
(* signing providers that wrap it, and the token service that calls them.  *)
(*                                                                         *)
(* Strings are sequences of one-character strings, byte slices are         *)
(* sequences of integers in 0..255.                                        *)
(***************************************************************************)
EXTENDS Integers, Sequences, FiniteSets, TLC

(* ------------------------------------------------------------------ *)
(* Bounds of the model                                                 *)
(* ------------------------------------------------------------------ *)

\* Largest retry budget handed to NewVault.
MaxRetriesArg == 4

\* Longest list of credentials handed to CreateToken or held by a presentation.
MaxCreds == 2

\* Longest string extractAddressFromDID is applied to, the holder DIDs aside.
MaxDidLen == 4

(* ------------------------------------------------------------------ *)
(* Program constants                                                   *)
(* ------------------------------------------------------------------ *)

\* vault.go: const defaultMaxRetries = 3
defaultMaxRetries == 3

\* vault.go: len(payload) != 32
PayloadLen == 32

\* vault.go: len(address) != 42
AddressLen == 42

\* vault.go: signatureBytes[:64]
SignatureLen == 64

\* net/http status codes named by vault.go
StatusOK == 200
StatusTooManyRequests == 429
StatusServiceUnavailable == 503

\* Statuses the code does not name: every one of them is "any other status".
OtherStatuses == {400, 500}

(* ------------------------------------------------------------------ *)
(* Strings and bytes                                                   *)
(* ------------------------------------------------------------------ *)

Fill(c, n) == [i \in 1..n |-> c]

Bytes(n, seed) == [i \in 1..n |-> (seed * i + 7) % 256]

HexDigits == <<"0","1","2","3","4","5","6","7","8","9","a","b","c","d","e","f">>

\* encoding/hex.EncodeToString: two lower-case digits per byte, high nibble first.
HexEncodeToString(b) ==
    [i \in 1..(2 * Len(b)) |->
        IF i % 2 = 1 THEN HexDigits[(b[(i + 1) \div 2] \div 16) + 1]
                     ELSE HexDigits[(b[i \div 2] % 16) + 1]]

\* encoding/hex reverseHexTable: the value of a hex digit, -1 for any other character.
FromHexChar(c) ==
    CASE c = "0" -> 0  [] c = "1" -> 1  [] c = "2" -> 2  [] c = "3" -> 3
      [] c = "4" -> 4  [] c = "5" -> 5  [] c = "6" -> 6  [] c = "7" -> 7
      [] c = "8" -> 8  [] c = "9" -> 9
      [] c = "a" -> 10 [] c = "b" -> 11 [] c = "c" -> 12
      [] c = "d" -> 13 [] c = "e" -> 14 [] c = "f" -> 15
      [] c = "A" -> 10 [] c = "B" -> 11 [] c = "C" -> 12
      [] c = "D" -> 13 [] c = "E" -> 14 [] c = "F" -> 15
      [] OTHER -> -1

\* encoding/hex.DecodeString: pairs of digits to bytes; an invalid digit or an
\* odd length is an error.
HexDecodeString(s) ==
    IF \E i \in 1..Len(s) : FromHexChar(s[i]) = -1 THEN [ok |-> FALSE, bytes |-> <<>>]
    ELSE IF Len(s) % 2 = 1 THEN [ok |-> FALSE, bytes |-> <<>>]
    ELSE [ok |-> TRUE,
          bytes |-> [i \in 1..(Len(s) \div 2) |->
                        16 * FromHexChar(s[2 * i - 1]) + FromHexChar(s[2 * i])]]

\* Go's s[n:] on a string: the suffix after the first n characters.
DropPrefix(s, n) == SubSeq(s, n + 1, Len(s))

Prefix0x == <<"0", "x">>

(* ------------------------------------------------------------------ *)
(* Inputs                                                              *)
(* ------------------------------------------------------------------ *)

VaultAddress == "http://vault:8200"
VaultToken == "vault-token"

AddrValid == Prefix0x \o Fill("a", AddressLen - 2)
AddrEmpty == <<>>
AddrShort == Prefix0x \o Fill("a", AddressLen - 3)
AddrLong == Prefix0x \o Fill("a", AddressLen - 1)
AddrNoPrefix == Fill("a", AddressLen)
AddrNonHex == Prefix0x \o Fill("g", AddressLen - 2)
\* A well-formed address of another account.
AddrOther == Prefix0x \o Fill("b", AddressLen - 2)

\* The method part of a holder DID; the account address follows it.
DidPrefix == <<"d", "i", "d", ":", "n", "d", "a", ":", "t", "e", "s", "t", "n", "e", "t", ":">>

Addresses == {AddrValid, AddrEmpty, AddrShort, AddrLong, AddrNoPrefix, AddrNonHex}

Payloads == {Bytes(PayloadLen, 3), Bytes(PayloadLen - 1, 3), Bytes(PayloadLen + 1, 3), <<>>}

\* The optional maxRetries argument of NewVault / NewVaultProvider (variadic).
RetryArgs == {<<>>} \cup {<<r>> : r \in (-1)..MaxRetriesArg}

(* ------------------------------------------------------------------ *)
(* HTTP responses of the remote signing service                        *)
(* ------------------------------------------------------------------ *)

\* A response body: either a JSON document with the fields the DTOs read
\* (dto.go: data.signature, data.address; a missing field is the empty string),
\* or text that is no JSON.
JsonBody(sig, addr) == [json |-> TRUE, signature |-> sig, address |-> addr, raw |-> ""]
TextBody(t) == [json |-> FALSE, signature |-> <<>>, address |-> <<>>, raw |-> t]
NoBody == TextBody("")

SigHex(n) == Prefix0x \o HexEncodeToString(Bytes(n, 5))

SignBodies ==
    { JsonBody(SigHex(SignatureLen), <<>>),          \* exactly 64 bytes
      JsonBody(SigHex(SignatureLen + 1), <<>>),      \* 65 bytes: r || s || v
      JsonBody(SigHex(40), <<>>),                    \* too short
      JsonBody(SigHex(20), <<>>),                    \* too short
      JsonBody(<<>>, <<>>),                          \* signature field missing
      JsonBody(HexEncodeToString(Bytes(SignatureLen + 2, 5)), <<>>),  \* no 0x prefix
      JsonBody(Prefix0x \o Fill("g", 2 * SignatureLen), <<>>),  \* not hex
      TextBody("not json") }

StoreBodies ==
    { JsonBody(<<>>, AddrValid), JsonBody(<<>>, <<>>), TextBody("not json") }

ErrorStatuses == {StatusTooManyRequests, StatusServiceUnavailable} \cup OtherStatuses

\* What one HTTP attempt can be answered with: a status and a body, whose
\* read (io.ReadAll) may fail.
Responses(okBodies) ==
    [status : {StatusOK}, body : okBodies, readOk : {TRUE}]
    \cup [status : ErrorStatuses, body : {TextBody("overloaded")}, readOk : {TRUE}]
    \cup [status : {StatusOK, StatusTooManyRequests}, body : {NoBody}, readOk : {FALSE}]

(* ------------------------------------------------------------------ *)
(* State                                                               *)
(* ------------------------------------------------------------------ *)

VARIABLES
    vault,       \* the Vault instance: Address, Token, MaxRetries
    pc,          \* where the running call is
    op,          \* the operation the caller invoked
    ctxKind,     \* the context handed to the Vault method: "caller" | "background"
    cancelled,   \* the caller's context has been cancelled
    payload,     \* SignMessage's payload argument
    address,     \* SignMessage's address argument
    jsonBody,    \* the marshalled request body
    endpoint,    \* the request URL
    attempt,     \* the retry loop's counter
    requests,    \* the requests handed to the HTTP client, in order
    responses,   \* the responses received, in order
    slept,       \* seconds elapsed of the backoff wait in progress
    waits,       \* the completed backoff waits, in seconds
    result,      \* what the call returned (inside CreateToken: what Sign returned)
    token,       \* CreateToken's arguments and the presentation it is building
    calls        \* the Sign calls of concurrent callers that share the provider

vars == <<vault, pc, op, ctxKind, cancelled, payload, address, jsonBody, endpoint,
          attempt, requests, responses, slept, waits, result, token, calls>>

NoResult == [kind |-> "none", err |-> "", cause |-> "", status |-> 0,
             body |-> NoBody, value |-> <<>>]

Ok(v) == [NoResult EXCEPT !.kind = "ok", !.value = v]
Err(msg) == [NoResult EXCEPT !.kind = "error", !.err = msg]
ErrWrap(msg, cause) == [NoResult EXCEPT !.kind = "error", !.err = msg, !.cause = cause]
ErrStatus(msg, st, b) ==
    [NoResult EXCEPT !.kind = "error", !.err = msg, !.status = st, !.body = b]
Panic(msg) == [NoResult EXCEPT !.kind = "panic", !.err = msg]

\* The goroutines that call Sign on one shared provider at the same time.
Callers == {"c1", "c2"}

\* The locals of one such call when the caller is not in a call.
NoCall == [pc |-> "idle", payload |-> <<>>, address |-> <<>>, attempt |-> 0,
           requests |-> <<>>, responses |-> <<>>, waits |-> <<>>, result |-> NoResult]

\* JSON values as VerifyToken's type assertions see them.
JsonString(s) == [type |-> "string", val |-> s]
JsonObject(name) == [type |-> "object", val |-> name]
JsonAbsent == [type |-> "absent", val |-> ""]

\* A presentation without a proof, and no presentation at all.
NoProof == [sig |-> <<>>, key |-> <<>>, msg |-> <<>>]
NoPresented == [holder |-> <<>>, vcField |-> [kind |-> "absent", items |-> <<>>],
                proof |-> NoProof]

\* The token service's locals when none of its calls is running.
NoToken == [vcsJwt |-> <<>>, holderDid |-> <<>>, opts |-> <<>>, signed |-> FALSE,
            parsed |-> 0, signData |-> <<>>, signCalls |-> 0,
            presented |-> NoPresented]

\* NewVault: retries := defaultMaxRetries; a first argument >= 0 replaces it.
NewVault(addr, tok, maxRetries) ==
    [Address |-> addr, Token |-> tok,
     MaxRetries |-> IF Len(maxRetries) > 0 /\ maxRetries[1] >= 0
                    THEN maxRetries[1] ELSE defaultMaxRetries]

\* NewVaultProvider: retries := 3; a first argument >= 0 replaces it; the
\* vault is made by NewVault with that number.
NewVaultProvider(addr, tok, maxRetries) ==
    [vault |-> NewVault(addr, tok,
                        <<IF Len(maxRetries) > 0 /\ maxRetries[1] >= 0
                          THEN maxRetries[1] ELSE defaultMaxRetries>>)]

\* context.Background() is never done; the caller's context is done once cancelled.
CtxDone == ctxKind = "caller" /\ cancelled

Init ==
    /\ vault \in {NewVault(VaultAddress, VaultToken, a) : a \in RetryArgs}
               \cup {NewVaultProvider(VaultAddress, VaultToken, a).vault : a \in RetryArgs}
    /\ pc = "idle"
    /\ op = "none"
    /\ ctxKind = "background"
    /\ cancelled = FALSE
    /\ payload = <<>>
    /\ address = <<>>
    /\ jsonBody = [payload |-> <<>>, privateKey |-> <<>>]
    /\ endpoint = <<>>
    /\ attempt = 0
    /\ requests = <<>>
    /\ responses = <<>>
    /\ slept = 0
    /\ waits = <<>>
    /\ result = NoResult
    /\ token = NoToken
    /\ calls = [c \in Callers |-> NoCall]

(* ------------------------------------------------------------------ *)
(* Vault.SignMessage                                                   *)
(* ------------------------------------------------------------------ *)

\* json.Marshal(&SignMessageRequest{Payload: "0x" + hex.EncodeToString(payload)})
SignMessageRequest(p) == [payload |-> Prefix0x \o HexEncodeToString(p), privateKey |-> <<>>]

\* Mutant of SignEndpoint: the key-provisioning endpoint.
SignEndpointProvision(v, a) == <<v.Address, "/v1/secp/accounts">>

\* v.Address + "/v1/secp/accounts/" + address + "/signRaw"
SignEndpoint(v, a) == <<v.Address, "/v1/secp/accounts/">> \o a \o <<"/signRaw">>

\* http.NewRequestWithContext(ctx, POST, endpoint, jsonBody) and its headers.
NewRequest(v, url, body) ==
    [method |-> "POST", url |-> url, body |-> body, token |-> v.Token]

\* Mutant of SignMessageArgError: the payload length check is missing.
SignMessageArgErrorNoPayload(p, a) ==
    IF Len(a) # AddressLen THEN "address must be 42 characters" ELSE ""

\* SignMessage's argument checks: the error it returns before any I/O, or "".
SignMessageArgError(p, a) ==
    IF Len(p) # PayloadLen THEN "payload must be 32 bytes"
    ELSE IF Len(a) # AddressLen THEN "address must be 42 characters"
    ELSE ""

\* Mutant of SignShouldRetry: every non-200 status is retried.
SignShouldRetryAnyError(status, att, v) ==
    /\ status # StatusOK
    /\ att < defaultMaxRetries

\* The retry test of SignMessage's loop body.
SignShouldRetry(status, att, v) ==
    /\ status \in {StatusTooManyRequests, StatusServiceUnavailable}
    /\ att < defaultMaxRetries

\* Mutant of BackoffSeconds: a fixed one-second wait.
BackoffSecondsFlat(att) == 1

\* time.Duration(attempt+1) * time.Second
BackoffSeconds(att) == att + 1

\* Mutant of SliceTo64: the decoded bytes are returned whole.
SliceTo64Whole(bytes) ==
    IF Len(bytes) >= SignatureLen THEN Ok(bytes)
    ELSE Panic("slice bounds out of range")

\* signatureBytes[:64]: hex.DecodeString returns a slice whose capacity is its
\* length (Go 1.24, the toolchain the README requires), so fewer than 64
\* decoded bytes make the slice expression panic.
SliceTo64(bytes) ==
    IF Len(bytes) >= SignatureLen THEN Ok(SubSeq(bytes, 1, SignatureLen))
    ELSE Panic("slice bounds out of range")

\* The 200 branch of SignMessage: unmarshal, strip two characters, hex-decode,
\* keep 64 bytes.
SignDecode(body) ==
    IF ~body.json THEN ErrStatus("failed to decode response", 0, body)
    ELSE IF Len(body.signature) < 2 THEN Panic("slice bounds out of range")
    ELSE LET dec == HexDecodeString(DropPrefix(body.signature, 2))
         IN IF ~dec.ok THEN ErrStatus("failed to decode response", 0, body)
            ELSE SliceTo64(dec.bytes)

\* A Vault method returns r: to the caller, or into CreateToken when the
\* token service made the call.
FinishAs(o, r) ==
    /\ pc' = IF o = "CreateToken" THEN "ct_signed" ELSE "done"
    /\ result' = r

Finish(r) == FinishAs(op, r)

\* Entry: the argument checks, the request body and the endpoint.
SignMessageEnter(o, kind, p, a) ==
    /\ op' = o
    /\ ctxKind' = kind
    /\ payload' = p
    /\ address' = a
    /\ attempt' = 0
    /\ IF SignMessageArgError(p, a) # ""
       THEN /\ FinishAs(o, Err(SignMessageArgError(p, a)))
            /\ UNCHANGED <<jsonBody, endpoint>>
       ELSE /\ jsonBody' = SignMessageRequest(p)
            /\ endpoint' = SignEndpoint(vault, a)
            /\ pc' = "sign_loop"
            /\ result' = NoResult

\* A caller invokes Vault.SignMessage(ctx, payload, address) with its own context.
SignMessage ==
    /\ pc = "idle"
    /\ \E p \in Payloads, a \in Addresses : SignMessageEnter("SignMessage", "caller", p, a)
    /\ UNCHANGED <<token, vault, cancelled, requests, responses, slept, waits>>
    /\ UNCHANGED calls

\* Mutant of SignAttempt: the loop has no bound on attempt.
SignAttemptUnbounded ==
    /\ pc = "sign_loop"
    /\ requests' = Append(requests, NewRequest(vault, endpoint, jsonBody))
    /\ pc' = "sign_do"
    /\ UNCHANGED <<token, vault, op, ctxKind, cancelled, payload, address, jsonBody, endpoint,
                   attempt, responses, slept, waits, result>>
    /\ UNCHANGED calls

\* Loop head with attempt <= MaxRetries: build the request and hand it to the
\* HTTP client. A context that is already done fails the send before anything
\* is written.
SignAttempt ==
    /\ pc = "sign_loop"
    /\ attempt <= vault.MaxRetries
    /\ IF CtxDone
       THEN /\ Finish(ErrWrap("failed to send request", "context"))
            /\ UNCHANGED requests
       ELSE /\ requests' = Append(requests, NewRequest(vault, endpoint, jsonBody))
            /\ pc' = "sign_do"
            /\ UNCHANGED result
    /\ UNCHANGED <<token, vault, op, ctxKind, cancelled, payload, address, jsonBody, endpoint,
                   attempt, responses, slept, waits>>
    /\ UNCHANGED calls

\* Loop head with attempt > MaxRetries: the statement after the loop.
SignExhausted ==
    /\ pc = "sign_loop"
    /\ attempt > vault.MaxRetries
    /\ Finish(Err("max retries exceeded"))
    /\ UNCHANGED <<token, vault, op, ctxKind, cancelled, payload, address, jsonBody, endpoint,
                   attempt, requests, responses, slept, waits>>
    /\ UNCHANGED calls

\* Mutant of SignSendError: a failed send is backed off and retried.
SignSendErrorRetried ==
    /\ pc = "sign_do"
    /\ ~CtxDone
    /\ attempt < vault.MaxRetries
    /\ pc' = "sign_backoff"
    /\ slept' = 0
    /\ UNCHANGED <<token, vault, op, ctxKind, cancelled, payload, address, jsonBody,
                   endpoint, attempt, requests, responses, waits, result>>
    /\ UNCHANGED calls

\* httpClient.Do fails: connection refused, or the 10 s client timeout.
SignSendError ==
    /\ pc = "sign_do"
    /\ ~CtxDone
    /\ Finish(ErrWrap("failed to send request", "network"))
    /\ UNCHANGED <<token, vault, op, ctxKind, cancelled, payload, address, jsonBody, endpoint,
                   attempt, requests, responses, slept, waits>>
    /\ UNCHANGED calls

\* The context is cancelled while the request is in flight: Do returns its error.
SignSendCancelled ==
    /\ pc = "sign_do"
    /\ CtxDone
    /\ Finish(ErrWrap("failed to send request", "context"))
    /\ UNCHANGED <<token, vault, op, ctxKind, cancelled, payload, address, jsonBody, endpoint,
                   attempt, requests, responses, slept, waits>>
    /\ UNCHANGED calls

\* A response arrives: read the body, then retry, fail or decode.
SignResponse ==
    /\ pc = "sign_do"
    /\ ~CtxDone
    /\ \E resp \in Responses(SignBodies) :
        /\ responses' = Append(responses, resp)
        /\ IF ~resp.readOk
           THEN /\ Finish(ErrWrap("failed to read response", "network"))
                /\ UNCHANGED slept
           ELSE IF SignShouldRetry(resp.status, attempt, vault)
           THEN /\ pc' = "sign_backoff"
                /\ slept' = 0
                /\ UNCHANGED result
           ELSE IF resp.status # StatusOK
           THEN /\ Finish(ErrStatus("unexpected status code", resp.status, resp.body))
                /\ UNCHANGED slept
           ELSE /\ Finish(SignDecode(resp.body))
                /\ UNCHANGED slept
    /\ UNCHANGED <<token, vault, op, ctxKind, cancelled, payload, address, jsonBody, endpoint,
                   attempt, requests, waits>>
    /\ UNCHANGED calls

\* select: a second of the backoff wait passes and the timer has not fired yet.
SignBackoffTick ==
    /\ pc = "sign_backoff"
    /\ ~CtxDone
    /\ slept + 1 < BackoffSeconds(attempt)
    /\ slept' = slept + 1
    /\ UNCHANGED <<token, vault, pc, op, ctxKind, cancelled, payload, address, jsonBody,
                   endpoint, attempt, requests, responses, waits, result>>
    /\ UNCHANGED calls

\* Mutant of SignBackoffElapsed: time.Sleep, which no cancellation interrupts.
SignBackoffSleep ==
    /\ pc = "sign_backoff"
    /\ slept + 1 = BackoffSeconds(attempt)
    /\ waits' = Append(waits, slept + 1)
    /\ slept' = 0
    /\ attempt' = attempt + 1
    /\ pc' = "sign_loop"
    /\ UNCHANGED <<token, vault, op, ctxKind, cancelled, payload, address, jsonBody,
                   endpoint, requests, responses, result>>
    /\ UNCHANGED calls

\* select: case <-time.After(...): continue
SignBackoffElapsed ==
    /\ pc = "sign_backoff"
    /\ ~CtxDone
    /\ slept + 1 = BackoffSeconds(attempt)
    /\ waits' = Append(waits, slept + 1)
    /\ slept' = 0
    /\ attempt' = attempt + 1
    /\ pc' = "sign_loop"
    /\ UNCHANGED <<token, vault, op, ctxKind, cancelled, payload, address, jsonBody,
                   endpoint, requests, responses, result>>
    /\ UNCHANGED calls

\* select: case <-ctx.Done(): return nil, ctx.Err()
SignBackoffCancelled ==
    /\ pc = "sign_backoff"
    /\ CtxDone
    /\ Finish(Err("context canceled"))
    /\ UNCHANGED <<token, vault, op, ctxKind, cancelled, payload, address, jsonBody, endpoint,
                   attempt, requests, responses, slept, waits>>
    /\ UNCHANGED calls

(* ------------------------------------------------------------------ *)
(* Vault.StorePrivateKey                                               *)
(* ------------------------------------------------------------------ *)

PrivateKeys == {<<"k", "1">>}

\* json.Marshal(&StorePrivateKeyRequest{PrivateKey: privateKey})
StorePrivateKeyRequest(k) == [payload |-> <<>>, privateKey |-> k]

\* v.Address + "/v1/secp/accounts"
StoreEndpoint(v) == <<v.Address, "/v1/secp/accounts">>

\* The retry test of StorePrivateKey's loop body.
StoreShouldRetry(status, att, v) ==
    /\ status \in {StatusTooManyRequests, StatusServiceUnavailable}
    /\ att < v.MaxRetries

\* The 200 branch of StorePrivateKey: unmarshal and return data.address.
StoreDecode(body) ==
    IF ~body.json THEN ErrStatus("failed to decode response", 0, body)
    ELSE Ok(body.address)

\* A caller invokes Vault.StorePrivateKey(ctx, privateKey) with its own context.
StorePrivateKey ==
    /\ pc = "idle"
    /\ \E k \in PrivateKeys : jsonBody' = StorePrivateKeyRequest(k)
    /\ endpoint' = StoreEndpoint(vault)
    /\ op' = "StorePrivateKey"
    /\ ctxKind' = "caller"
    /\ attempt' = 0
    /\ pc' = "store_loop"
    /\ UNCHANGED <<token, vault, cancelled, payload, address, requests, responses,
                   slept, waits, result>>
    /\ UNCHANGED calls

\* Loop head: with attempt <= MaxRetries build the request and hand it to the
\* HTTP client; otherwise the statement after the loop.
StoreAttempt ==
    /\ pc = "store_loop"
    /\ IF attempt > vault.MaxRetries
       THEN /\ Finish(Err("max retries exceeded for request"))
            /\ UNCHANGED requests
       ELSE IF CtxDone
       THEN /\ Finish(ErrWrap("failed to send request", "context"))
            /\ UNCHANGED requests
       ELSE /\ requests' = Append(requests, NewRequest(vault, endpoint, jsonBody))
            /\ pc' = "store_do"
            /\ UNCHANGED result
    /\ UNCHANGED <<token, vault, op, ctxKind, cancelled, payload, address, jsonBody,
                   endpoint, attempt, responses, slept, waits>>
    /\ UNCHANGED calls

\* httpClient.Do fails: connection refused, or the 10 s client timeout.
StoreSendError ==
    /\ pc = "store_do"
    /\ ~CtxDone
    /\ Finish(ErrWrap("failed to send request", "network"))
    /\ UNCHANGED <<token, vault, op, ctxKind, cancelled, payload, address, jsonBody,
                   endpoint, attempt, requests, responses, slept, waits>>
    /\ UNCHANGED calls

\* The context is cancelled while the request is in flight: Do returns its error.
StoreSendCancelled ==
    /\ pc = "store_do"
    /\ CtxDone
    /\ Finish(ErrWrap("failed to send request", "context"))
    /\ UNCHANGED <<token, vault, op, ctxKind, cancelled, payload, address, jsonBody,
                   endpoint, attempt, requests, responses, slept, waits>>
    /\ UNCHANGED calls

\* A response arrives: retry, fail, or read the body and decode.
StoreResponse ==
    /\ pc = "store_do"
    /\ ~CtxDone
    /\ \E resp \in Responses(StoreBodies) :
        /\ responses' = Append(responses, resp)
        /\ IF StoreShouldRetry(resp.status, attempt, vault)
           THEN /\ pc' = "store_backoff"
                /\ slept' = 0
                /\ UNCHANGED result
           ELSE IF resp.status # StatusOK
           THEN /\ Finish(ErrStatus("unexpected status code", resp.status, NoBody))
                /\ UNCHANGED slept
           ELSE IF ~resp.readOk
           THEN /\ Finish(ErrWrap("failed to read response body", "network"))
                /\ UNCHANGED slept
           ELSE /\ Finish(StoreDecode(resp.body))
                /\ UNCHANGED slept
    /\ UNCHANGED <<token, vault, op, ctxKind, cancelled, payload, address, jsonBody,
                   endpoint, attempt, requests, waits>>
    /\ UNCHANGED calls

\* select: a second of the backoff wait passes and the timer has not fired yet.
StoreBackoffTick ==
    /\ pc = "store_backoff"
    /\ ~CtxDone
    /\ slept + 1 < BackoffSeconds(attempt)
    /\ slept' = slept + 1
    /\ UNCHANGED <<token, vault, pc, op, ctxKind, cancelled, payload, address, jsonBody,
                   endpoint, attempt, requests, responses, waits, result>>
    /\ UNCHANGED calls

\* select: case <-time.After(...): continue
StoreBackoffElapsed ==
    /\ pc = "store_backoff"
    /\ ~CtxDone
    /\ slept + 1 = BackoffSeconds(attempt)
    /\ waits' = Append(waits, slept + 1)
    /\ slept' = 0
    /\ attempt' = attempt + 1
    /\ pc' = "store_loop"
    /\ UNCHANGED <<token, vault, op, ctxKind, cancelled, payload, address, jsonBody,
                   endpoint, requests, responses, result>>
    /\ UNCHANGED calls

\* select: case <-ctx.Done(): return "", ctx.Err()
StoreBackoffCancelled ==
    /\ pc = "store_backoff"
    /\ CtxDone
    /\ Finish(Err("context canceled"))
    /\ UNCHANGED <<token, vault, op, ctxKind, cancelled, payload, address, jsonBody,
                   endpoint, attempt, requests, responses, slept, waits>>
    /\ UNCHANGED calls

(* ------------------------------------------------------------------ *)
(* The signing providers                                               *)
(* ------------------------------------------------------------------ *)

\* provider.vaultProvider.Sign's variadic opts: none, or a signer address.
OptsSet == {<<>>} \cup {<<a>> : a \in Addresses}

\* provider.go, VaultProvider.Sign(payload, options): an empty SignerAddress is
\* refused, anything else goes to SignMessage under context.Background().
ProviderSignEnter(o, p, signerAddress) ==
    IF signerAddress = <<>>
    THEN /\ FinishAs(o, Err("signer address is required"))
         /\ op' = o
         /\ ctxKind' = "background"
         /\ payload' = p
         /\ address' = signerAddress
         /\ UNCHANGED <<jsonBody, endpoint, attempt>>
    ELSE SignMessageEnter(o, "background", p, signerAddress)

\* provider_vault.go, vaultProvider.Sign(payload, opts...): no option is refused,
\* otherwise opts[0] goes to SignMessage under context.Background().
VaultProviderSignEnter(o, p, opts) ==
    IF Len(opts) = 0
    THEN /\ FinishAs(o, Err("signer address is required"))
         /\ op' = o
         /\ ctxKind' = "background"
         /\ payload' = p
         /\ UNCHANGED <<address, jsonBody, endpoint, attempt>>
    ELSE SignMessageEnter(o, "background", p, opts[1])

\* A caller invokes the root package's VaultProvider.Sign.
ProviderSign ==
    /\ pc = "idle"
    /\ \E p \in Payloads, a \in Addresses : ProviderSignEnter("VaultProvider.Sign", p, a)
    /\ UNCHANGED <<token, vault, cancelled, requests, responses, slept, waits>>
    /\ UNCHANGED calls

\* A caller invokes package provider's vaultProvider.Sign.
VaultProviderSign ==
    /\ pc = "idle"
    /\ \E p \in Payloads, o \in OptsSet : VaultProviderSignEnter("vaultProvider.Sign", p, o)
    /\ UNCHANGED <<token, vault, cancelled, requests, responses, slept, waits>>
    /\ UNCHANGED calls

(* ------------------------------------------------------------------ *)
(* The token service: auth.CreateToken                                 *)
(* ------------------------------------------------------------------ *)

\* Credential wire forms handed to CreateToken; the codec refuses "bad".
CredJwts == {"vcA", "vcB", "bad"}
VcsJwts == UNION {[1..n -> CredJwts] : n \in 0..MaxCreds}
HolderDids == {DidPrefix \o AddrValid}
CreateOpts == {<<>>, <<AddrValid>>, <<AddrShort>>, <<AddrOther>>}

\* vc.ParseCredential: the codec's verdict on one wire form.
ParseCredentialOk(jwt) == jwt \notin {"bad"}

\* The error vc.ParseCredential returns for a wire form: it is made from the
\* bytes the codec was given and from nothing else.
ParseCredentialError(jwt) == ErrWrap("ParseCredential", jwt)

\* Mutant of ParseCredentials: an entry the codec refuses is skipped.
ParseCredentialsSkipInvalid(vcsJwt, i) == [err |-> NoResult, parsed |-> Len(vcsJwt)]

\* The loop over vcsJwt: parse entry i, return the codec's error unchanged
\* at the first entry it refuses, go on to entry i + 1 otherwise.
RECURSIVE ParseCredentials(_, _)
ParseCredentials(vcsJwt, i) ==
    IF i > Len(vcsJwt) THEN [err |-> NoResult, parsed |-> i - 1]
    ELSE IF ~ParseCredentialOk(vcsJwt[i])
    THEN [err |-> ParseCredentialError(vcsJwt[i]), parsed |-> i]
    ELSE ParseCredentials(vcsJwt, i + 1)

\* vpPresentation.GetSigningInput(): the codec's canonical bytes of the presentation.
GetSigningInput(vcs, holder) == Bytes(40 + Len(vcs), 11)

\* sha256.Sum256: a 32-byte digest.
Sha256(b) == [i \in 1..PayloadLen |-> (31 * Len(b) + b[1] + b[Len(b)] + 13 * i) % 256]

SignedPayloadRaw(signData) == signData

\* hash := sha256.Sum256(signData); the provider is given hash[:].
SignedPayload(signData) == Sha256(signData)

\* The options CreateToken hands to provider.Sign: the caller's opts, as they are.
SignOptions(holderDid, opts) == opts

\* The steps of CreateToken the codec can fail before the signature is asked for.
PreSignSteps == {"NewJWTPresentation", "GetSigningInput"}

\* The steps of CreateToken that can fail after the signature came back.
PostSignSteps == {"AddCustomProof", "Serialize", "Marshal"}

\* CreateToken up to the call of the provider: parse every credential, build
\* the presentation, take its signing input, hash it, call provider.Sign.
CreateToken ==
    /\ pc = "idle"
    /\ \E vcs \in VcsJwts, holder \in HolderDids, opts \in CreateOpts,
          fail \in PreSignSteps \cup {"none"} :
        LET parse == ParseCredentials(vcs, 1)
            args == [NoToken EXCEPT !.vcsJwt = vcs, !.holderDid = holder,
                                    !.opts = opts, !.parsed = parse.parsed]
        IN IF parse.err # NoResult
           THEN /\ pc' = "done"
                /\ result' = parse.err
                /\ op' = "CreateToken"
                /\ token' = args
                /\ UNCHANGED <<ctxKind, payload, address, jsonBody, endpoint, attempt>>
           ELSE IF fail # "none"
           THEN /\ pc' = "done"
                /\ result' = Err(fail)
                /\ op' = "CreateToken"
                /\ token' = args
                /\ UNCHANGED <<ctxKind, payload, address, jsonBody, endpoint, attempt>>
           ELSE /\ token' = [args EXCEPT !.signData = GetSigningInput(vcs, holder),
                                         !.signCalls = 1]
                /\ VaultProviderSignEnter("CreateToken",
                                          SignedPayload(GetSigningInput(vcs, holder)),
                                          SignOptions(holder, opts))
    /\ UNCHANGED <<vault, cancelled, requests, responses, slept, waits>>
    /\ UNCHANGED calls

\* vpPresentation.Serialize() and json.Marshal: the token carries the holder,
\* the credentials in the order given (an empty list stays a list) and the proof.
\* The proof is the signature bytes, made by the key of the account the
\* signing service was asked for, over the payload it was given.
SerializePresentation(holderDid, vcsJwt, sig, key, msg) ==
    [holder |-> holderDid,
     vcField |-> [kind |-> "list", items |-> [i \in 1..Len(vcsJwt) |-> JsonString(vcsJwt[i])]],
     proof |-> [sig |-> sig, key |-> key, msg |-> msg]]

\* CreateToken after provider.Sign returned: pass an error on, or attach the
\* proof, serialize and marshal.
CreateTokenSigned ==
    /\ pc = "ct_signed"
    /\ pc' = "done"
    /\ IF result.kind # "ok"
       THEN UNCHANGED <<result, token>>
       ELSE \E fail \in PostSignSteps \cup {"none"} :
              /\ token' = [token EXCEPT !.signed = TRUE]
              /\ result' = IF fail # "none" THEN Err(fail)
                           ELSE Ok(SerializePresentation(token.holderDid, token.vcsJwt,
                                                         result.value, address, payload))
    /\ UNCHANGED <<vault, op, ctxKind, cancelled, payload, address, jsonBody, endpoint,
                   attempt, requests, responses, slept, waits>>
    /\ UNCHANGED calls

(* ------------------------------------------------------------------ *)
(* The token service: extractAddressFromDID                            *)
(* ------------------------------------------------------------------ *)

\* strings.LastIndex(did, ":") as Go counts: from 0, and -1 when there is none.
LastIndexColon(did) ==
    IF \A i \in 1..Len(did) : did[i] # ":" THEN -1
    ELSE (CHOOSE i \in 1..Len(did) :
             did[i] = ":" /\ \A j \in (i + 1)..Len(did) : did[j] # ":") - 1

extractAddressFromDIDFirstColon(did) ==
    IF \A i \in 1..Len(did) : did[i] # ":" THEN did
    ELSE DropPrefix(did, CHOOSE i \in 1..Len(did) :
                             did[i] = ":" /\ \A j \in 1..(i - 1) : did[j] # ":")

\* extractAddressFromDID: the whole string when it has no ":", else
\* did[lastColonIndex+1:].
extractAddressFromDID(did) ==
    IF LastIndexColon(did) = -1 THEN did
    ELSE DropPrefix(did, LastIndexColon(did) + 1)

\* The strings extractAddressFromDID is applied to.
DidChars == {":", "a", "0"}
DidStrings == (UNION {[1..n -> DidChars] : n \in 0..MaxDidLen}) \cup HolderDids

\* A call of extractAddressFromDID.
ExtractAddress ==
    /\ pc = "idle"
    /\ \E did \in DidStrings :
        /\ token' = [NoToken EXCEPT !.holderDid = did]
        /\ result' = Ok(extractAddressFromDID(did))
    /\ op' = "extractAddressFromDID"
    /\ pc' = "done"
    /\ UNCHANGED <<vault, ctxKind, cancelled, payload, address, jsonBody, endpoint,
                   attempt, requests, responses, slept, waits>>
    /\ UNCHANGED calls

(* ------------------------------------------------------------------ *)
(* The token service: auth.VerifyToken                                 *)
(* ------------------------------------------------------------------ *)

\* What vc.ParseCredential(...).GetContents() decodes to, for the fields
\* VerifyToken reads.
CredContents(jwt) ==
    CASE jwt = "vcA" -> [issuer |-> JsonString("did:issuer:A"),
                         credentialSubject |-> JsonObject("subjectA")]
      [] jwt = "vcB" -> [issuer |-> JsonString("did:issuer:B"),
                         credentialSubject |-> JsonObject("subjectB")]
      [] jwt = "vcObjIssuer" -> [issuer |-> JsonObject("issuerC"),
                                 credentialSubject |-> JsonObject("subjectC")]
      [] jwt = "vcNoSubject" -> [issuer |-> JsonString("did:issuer:D"),
                                 credentialSubject |-> JsonAbsent]
      [] OTHER -> [issuer |-> JsonAbsent, credentialSubject |-> JsonAbsent]

\* The signature the signing service makes; whose it is and what it is over
\* are the proof's key and msg.
GenuineSignature == Bytes(SignatureLen, 5)

\* The bytes a presentation's proof has to be over.
SigningInputOf(t) ==
    GetSigningInput(IF t.vcField.kind = "list" THEN t.vcField.items ELSE <<>>, t.holder)

\* The codec's proof verification: the proof is the signature of the holder's
\* key over the digest of the presentation's signing input.
ProofValid(t) ==
    /\ t.proof.sig = GenuineSignature
    /\ t.proof.key = extractAddressFromDID(t.holder)
    /\ t.proof.msg = Sha256(SigningInputOf(t))

\* The codec's validation of the embedded credentials: every embedded wire
\* form is one the codec parses.
CredentialsValid(t) ==
    t.vcField.kind = "list" =>
        \A i \in 1..Len(t.vcField.items) :
            t.vcField.items[i].type = "string" => ParseCredentialOk(t.vcField.items[i].val)

\* vp.ParseJWTPresentation(token, options...): accepted or not.
ParseJWTPresentationOk(t, options) ==
    /\ options.verifyProof => ProofValid(t)
    /\ options.vcValidation => CredentialsValid(t)

VerifyOptionsNoProof == [verifyProof |-> FALSE, vcValidation |-> TRUE]

\* The options VerifyToken parses with: vp.WithVerifyProof(), vp.WithVCValidation().
VerifyOptions == [verifyProof |-> TRUE, vcValidation |-> TRUE]

\* A nil []VcClaims, as `var vcClaimsList []VcClaims` declares it and as
\* every error return hands back.
NilClaims == [isNil |-> TRUE, items |-> <<>>]

\* nil, err
VerifyErr(r) == [r EXCEPT !.value = NilClaims]

AppendClaimFront(vcClaimsList, claim) ==
    [isNil |-> FALSE, items |-> <<claim>> \o vcClaimsList.items]

\* vcClaimsList = append(vcClaimsList, claim)
AppendClaim(vcClaimsList, claim) ==
    [isNil |-> FALSE, items |-> Append(vcClaimsList.items, claim)]

VcsArrayOfLenient(vcField) ==
    IF vcField.kind # "list"
    THEN [err |-> "", items |-> <<>>]
    ELSE [err |-> "", items |-> vcField.items]

\* vpData["verifiableCredential"] and its assertion to []any.
VcsArrayOf(vcField) ==
    IF vcField.kind = "absent"
    THEN [err |-> "no verifiableCredential found in VP", items |-> <<>>]
    ELSE IF vcField.kind # "list"
    THEN [err |-> "verifiableCredential is not an array", items |-> <<>>]
    ELSE [err |-> "", items |-> vcField.items]

\* The steps of VerifyToken the codec or the JSON decoder can fail: on the
\* presentation, and on a credential inside the loop.
VerifySteps == {"GetContents", "Unmarshal"}
VerifyCredentialSteps == {"credential.GetContents", "credential.Unmarshal"}

\* Where a call of VerifyToken meets such a failure, if anywhere: on the
\* presentation (at 0) or on the credential at a position of the list.
NoFailure == [step |-> "none", at |-> 0]
VerifyFailures ==
    {NoFailure}
    \cup {[step |-> s, at |-> 0] : s \in VerifySteps}
    \cup {[step |-> s, at |-> k] : s \in VerifyCredentialSteps, k \in 1..MaxCreds}

\* Mutant of ReturnNilErr: what was collected so far is returned with the error.
ReturnPartialErr(vcClaimsList, r) == [r EXCEPT !.value = vcClaimsList]

\* An error return inside the loop: return nil, err.
ReturnNilErr(vcClaimsList, r) == VerifyErr(r)

\* The loop over vcsArray from element i on: assert the element to a string,
\* parse it, read its contents, assert issuer to a string and
\* credentialSubject to a map, append.
RECURSIVE CollectClaims(_, _, _, _)
CollectClaims(vcsArray, i, vcClaimsList, fail) ==
    IF i > Len(vcsArray) THEN Ok(vcClaimsList)
    ELSE IF vcsArray[i].type # "string"
    THEN Panic("interface conversion: vcItem is not string")
    ELSE IF ~ParseCredentialOk(vcsArray[i].val)
    THEN ReturnNilErr(vcClaimsList, ParseCredentialError(vcsArray[i].val))
    ELSE IF fail.step \in VerifyCredentialSteps /\ fail.at = i
    THEN ReturnNilErr(vcClaimsList, ErrWrap(fail.step, vcsArray[i].val))
    ELSE LET credContents == CredContents(vcsArray[i].val)
         IN IF credContents.issuer.type # "string"
            THEN Panic("interface conversion: issuer is not string")
            ELSE IF credContents.credentialSubject.type # "object"
            THEN Panic("interface conversion: credentialSubject is not map")
            ELSE CollectClaims(vcsArray, i + 1,
                     AppendClaim(vcClaimsList,
                         [Issuer |-> credContents.issuer.val,
                          CredentialSubject |-> credContents.credentialSubject.val]),
                     fail)

\* VerifyToken(ctx, token): what it returns for the token t.
VerifyTokenResult(t, fail) ==
    IF ~ParseJWTPresentationOk(t, VerifyOptions)
    THEN VerifyErr(Err("ParseJWTPresentation"))
    ELSE IF fail.step \in VerifySteps
    THEN VerifyErr(Err(fail.step))
    ELSE IF VcsArrayOf(t.vcField).err # ""
    THEN VerifyErr(Err(VcsArrayOf(t.vcField).err))
    ELSE CollectClaims(VcsArrayOf(t.vcField).items, 1, NilClaims, fail)

\* The same presentation with one byte of its proof changed.
TamperProof(t) == [t EXCEPT !.proof.sig[1] = (@ + 1) % 256]

\* Elements a presentation's credential list can hold: wire forms of
\* credentials, and a value that is no string.
VcItems ==
    {JsonString(c) : c \in {"vcA", "vcB", "vcObjIssuer", "vcNoSubject", "bad"}}
    \cup {JsonObject("embedded")}

VcFields ==
    {[kind |-> "absent", items |-> <<>>], [kind |-> "object", items |-> <<>>]}
    \cup {[kind |-> "list", items |-> l] : l \in UNION {[1..n -> VcItems] : n \in 0..MaxCreds}}

\* A presentation with the given credential field, signed by its holder.
SignedBy(holderDid, vcField) ==
    LET unsigned == [holder |-> holderDid, vcField |-> vcField, proof |-> NoProof]
    IN [unsigned EXCEPT !.proof = [sig |-> GenuineSignature,
                                   key |-> extractAddressFromDID(holderDid),
                                   msg |-> Sha256(SigningInputOf(unsigned))]]

\* Tokens a caller presents to VerifyToken: properly signed ones and the same
\* with the proof tampered with.
PresentedTokens ==
    LET signed == {SignedBy(h, f) : h \in HolderDids, f \in VcFields}
    IN signed \cup {TamperProof(t) : t \in signed}

VerifyTokenRun(t, fail) ==
    /\ op' = "VerifyToken"
    /\ pc' = "done"
    /\ result' = VerifyTokenResult(t, fail)

\* A caller invokes VerifyToken on a token it received.
VerifyToken ==
    /\ pc = "idle"
    /\ \E t \in PresentedTokens, fail \in VerifyFailures :
        /\ token' = [NoToken EXCEPT !.presented = t]
        /\ VerifyTokenRun(t, fail)
    /\ UNCHANGED <<vault, ctxKind, cancelled, payload, address, jsonBody, endpoint,
                   attempt, requests, responses, slept, waits>>
    /\ UNCHANGED calls

\* The caller of CreateToken hands the token it got (or that token with its
\* proof tampered with) to VerifyToken.
VerifyCreatedToken ==
    /\ pc = "done"
    /\ op = "CreateToken"
    /\ result.kind = "ok"
    /\ \E t \in {result.value, TamperProof(result.value)},
          fail \in VerifyFailures :
        /\ token' = [token EXCEPT !.presented = t]
        /\ VerifyTokenRun(t, fail)
    /\ UNCHANGED <<vault, ctxKind, cancelled, payload, address, jsonBody, endpoint,
                   attempt, requests, responses, slept, waits>>
    /\ UNCHANGED calls

(* ------------------------------------------------------------------ *)
(* The caller                                                          *)
(* ------------------------------------------------------------------ *)

\* The caller cancels the context it passed, at any moment of a running call
\* that takes one.
Cancel ==
    /\ pc \notin {"idle", "done"}
    /\ op \in {"SignMessage", "StorePrivateKey", "CreateToken"}
    /\ ~cancelled
    /\ cancelled' = TRUE
    /\ UNCHANGED <<token, vault, pc, op, ctxKind, payload, address, jsonBody, endpoint,
                   attempt, requests, responses, slept, waits, result>>
    /\ UNCHANGED calls

\* The call has returned; nothing of it is kept (no state persists across calls).
Return ==
    /\ pc = "done"
    /\ pc' = "idle"
    /\ op' = "none"
    /\ ctxKind' = "background"
    /\ cancelled' = FALSE
    /\ payload' = <<>>
    /\ address' = <<>>
    /\ jsonBody' = [payload |-> <<>>, privateKey |-> <<>>]
    /\ endpoint' = <<>>
    /\ attempt' = 0
    /\ requests' = <<>>
    /\ responses' = <<>>
    /\ slept' = 0
    /\ waits' = <<>>
    /\ result' = NoResult
    /\ token' = NoToken
    /\ UNCHANGED vault
    /\ UNCHANGED calls

Next ==
    \/ SignMessage
    \/ SignAttempt
    \/ SignExhausted
    \/ SignSendError
    \/ SignSendCancelled
    \/ SignResponse
    \/ SignBackoffTick
    \/ SignBackoffElapsed
    \/ SignBackoffCancelled
    \/ StorePrivateKey
    \/ StoreAttempt
    \/ StoreSendError
    \/ StoreSendCancelled
    \/ StoreResponse
    \/ StoreBackoffTick
    \/ StoreBackoffElapsed
    \/ StoreBackoffCancelled
    \/ ProviderSign
    \/ VaultProviderSign
    \/ CreateToken
    \/ CreateTokenSigned
    \/ ExtractAddress
    \/ VerifyToken
    \/ VerifyCreatedToken
    \/ Cancel
    \/ Return

Spec == Init /\ [][Next]_vars

\* A step of a running call: everything but its start, the caller's
\* cancellation and the caller taking the result.
CallStep ==
    \/ SignAttempt
    \/ SignExhausted
    \/ SignSendError
    \/ SignSendCancelled
    \/ SignResponse
    \/ SignBackoffTick
    \/ SignBackoffElapsed
    \/ SignBackoffCancelled
    \/ StoreAttempt
    \/ StoreSendError
    \/ StoreSendCancelled
    \/ StoreResponse
    \/ StoreBackoffTick
    \/ StoreBackoffElapsed
    \/ StoreBackoffCancelled
    \/ CreateTokenSigned

\* The goroutine of a running call keeps running: the HTTP client answers or
\* gives up within its timeout, and the backoff timer fires.
LiveSpec == Spec /\ WF_vars(CallStep)

(* ------------------------------------------------------------------ *)
(* Concurrent Sign calls on one shared provider                        *)
(* ------------------------------------------------------------------ *)

\* What the callers' requests are answered with.
ConcResponses ==
    [status : {StatusOK}, body : {JsonBody(SigHex(SignatureLen), <<>>)}, readOk : {TRUE}]
    \cup [status : {StatusTooManyRequests} \cup OtherStatuses,
          body : {TextBody("overloaded")}, readOk : {TRUE}]

\* The variables of the single-caller view; the shared Vault is among them.
seqVars == <<vault, pc, op, ctxKind, cancelled, payload, address, jsonBody, endpoint,
             attempt, requests, responses, slept, waits, result, token>>

\* Mutant of CallAttempt: the counter is kept in the shared instance.
CallAttemptShared(cs, c) == cs[CHOOSE x \in Callers : TRUE].attempt

\* `attempt` is a variable of SignMessage's for statement: each call has its own.
CallAttempt(cs, c) == cs[c].attempt

\* Caller c invokes VaultProvider.Sign: the address check of the provider,
\* the argument checks of SignMessage.
ConcSign(c) ==
    /\ calls[c].pc = "idle"
    /\ \E p \in {Bytes(PayloadLen, 3)}, a \in {AddrValid, AddrOther, AddrShort, AddrEmpty} :
        calls' = [calls EXCEPT ![c] =
                    IF a = <<>>
                    THEN [NoCall EXCEPT !.pc = "done", !.payload = p,
                                        !.result = Err("signer address is required")]
                    ELSE IF SignMessageArgError(p, a) # ""
                    THEN [NoCall EXCEPT !.pc = "done", !.payload = p, !.address = a,
                                        !.result = Err(SignMessageArgError(p, a))]
                    ELSE [NoCall EXCEPT !.pc = "sign_loop", !.payload = p, !.address = a]]
    /\ UNCHANGED seqVars

\* Loop head of caller c's SignMessage.
ConcAttempt(c) ==
    /\ calls[c].pc = "sign_loop"
    /\ calls' = [calls EXCEPT ![c] =
                    IF CallAttempt(calls, c) > vault.MaxRetries
                    THEN [@ EXCEPT !.pc = "done", !.result = Err("max retries exceeded")]
                    ELSE [@ EXCEPT !.pc = "sign_do",
                                   !.requests = Append(@, NewRequest(vault,
                                                    SignEndpoint(vault, calls[c].address),
                                                    SignMessageRequest(calls[c].payload)))]]
    /\ UNCHANGED seqVars

\* httpClient.Do of caller c fails.
ConcSendError(c) ==
    /\ calls[c].pc = "sign_do"
    /\ calls' = [calls EXCEPT ![c].pc = "done",
                              ![c].result = ErrWrap("failed to send request", "network")]
    /\ UNCHANGED seqVars

\* The response to caller c's request arrives: retry, fail or decode.
ConcResponse(c) ==
    /\ calls[c].pc = "sign_do"
    /\ \E resp \in ConcResponses :
        calls' = [calls EXCEPT ![c] =
                    IF SignShouldRetry(resp.status, CallAttempt(calls, c), vault)
                    THEN [@ EXCEPT !.pc = "sign_backoff", !.responses = Append(@, resp)]
                    ELSE IF resp.status # StatusOK
                    THEN [@ EXCEPT !.pc = "done", !.responses = Append(@, resp),
                                   !.result = ErrStatus("unexpected status code",
                                                        resp.status, resp.body)]
                    ELSE [@ EXCEPT !.pc = "done", !.responses = Append(@, resp),
                                   !.result = SignDecode(resp.body)]]
    /\ UNCHANGED seqVars

\* Caller c's backoff wait elapses (context.Background() is never done).
ConcBackoff(c) ==
    /\ calls[c].pc = "sign_backoff"
    /\ calls' = [calls EXCEPT ![c].pc = "sign_loop",
                              ![c].waits = Append(@, BackoffSeconds(CallAttempt(calls, c))),
                              ![c].attempt = CallAttempt(calls, c) + 1]
    /\ UNCHANGED seqVars

\* Caller c has its result; nothing of the call is kept.
ConcReturn(c) ==
    /\ calls[c].pc = "done"
    /\ calls' = [calls EXCEPT ![c] = NoCall]
    /\ UNCHANGED seqVars

ConcNext ==
    \/ \E c \in Callers : ConcSign(c)
    \/ \E c \in Callers : ConcAttempt(c)
    \/ \E c \in Callers : ConcSendError(c)
    \/ \E c \in Callers : ConcResponse(c)
    \/ \E c \in Callers : ConcBackoff(c)
    \/ \E c \in Callers : ConcReturn(c)

ConcSpec == Init /\ [][ConcNext]_vars

(* ------------------------------------------------------------------ *)
(* Vocabulary of the properties                                        *)
(* ------------------------------------------------------------------ *)

\* The entry points that are one Sign call.
SignOps == {"SignMessage", "VaultProvider.Sign", "vaultProvider.Sign"}

\* Sign (directly, or as CreateToken's signing step) has returned `result`.
SignReturned ==
    \/ op \in SignOps /\ pc = "done"
    \/ op = "CreateToken" /\ pc = "ct_signed"

\* A Vault method (Sign or StorePrivateKey) has returned `result`.
VaultReturned == SignReturned \/ (op = "StorePrivateKey" /\ pc = "done")

Retryable(st) == st \in {StatusTooManyRequests, StatusServiceUnavailable}

\* Every response of the sequence is a 429 or a 503.
AllRejected(rs) == \A i \in 1..Len(rs) : Retryable(rs[i].status) /\ rs[i].readOk

Last(sq) == sq[Len(sq)]
Front(sq) == SubSeq(sq, 1, Len(sq) - 1)

RECURSIVE SumSeq(_)
SumSeq(sq) == IF sq = <<>> THEN 0 ELSE sq[1] + SumSeq(Tail(sq))

\* The spec's precondition on a signer address: 42 characters, 0x, then hex.
IsHexAddress(a) ==
    /\ Len(a) = AddressLen
    /\ a[1] = "0"
    /\ a[2] = "x"
    /\ \A i \in 3..Len(a) : FromHexChar(a[i]) # -1

\* The errors that reject an argument before any I/O.
InvalidArgumentErrors ==
    {"payload must be 32 bytes", "address must be 42 characters",
     "signer address is required"}

\* A 200 body whose signature field is 0x followed by the hex of >= 64 bytes.
WellFormedSignature(body) ==
    /\ body.json
    /\ Len(body.signature) >= 2
    /\ SubSeq(body.signature, 1, 2) = Prefix0x
    /\ HexDecodeString(DropPrefix(body.signature, 2)).ok
    /\ Len(body.signature) >= 2 + 2 * SignatureLen

(* ------------------------------------------------------------------ *)
(* C1                                                                  *)
(* ------------------------------------------------------------------ *)

\* C1 (as claimed): for every retry budget R, a Sign call all of whose HTTP
\* attempts were answered 429 or 503 has issued exactly R+1 attempts and
\* failed with "max retries exceeded" (not with the unexpected-status error).
C1_AllRejectedExhausts ==
    (/\ SignReturned
     /\ responses # <<>>
     /\ Len(responses) = Len(requests)
     /\ AllRejected(responses)
     /\ ~cancelled)
    => (/\ Len(requests) = vault.MaxRetries + 1
        /\ result = Err("max retries exceeded"))

(* ------------------------------------------------------------------ *)
(* C2                                                                  *)
(* ------------------------------------------------------------------ *)

\* C2 (as claimed): for every retry budget R and every k <= R, Sign retries
\* after each of k rejections (it does not give up while k <= R), and when
\* attempt k is then answered 200 with a well-formed signature it returns
\* success after exactly k+1 attempts, all with the same endpoint and body.
C2_RetriesThenSuccess ==
    /\ ~(/\ SignReturned
         /\ ~cancelled
         /\ Len(responses) = Len(requests)
         /\ Len(responses) \in 1..vault.MaxRetries
         /\ AllRejected(responses))
    /\ (/\ SignReturned
        /\ ~cancelled
        /\ responses # <<>>
        /\ Len(responses) <= vault.MaxRetries + 1
        /\ AllRejected(Front(responses))
        /\ Last(responses).status = StatusOK
        /\ Last(responses).readOk
        /\ WellFormedSignature(Last(responses).body))
       => (/\ result.kind = "ok"
           /\ Len(requests) = Len(responses)
           /\ \A i \in 1..Len(requests) :
                 requests[i] = NewRequest(vault, SignEndpoint(vault, address),
                                          SignMessageRequest(payload)))

(* ------------------------------------------------------------------ *)
(* C3                                                                  *)
(* ------------------------------------------------------------------ *)

\* C3: the backoff wait after a rejection on attempt i (0-indexed) lasts
\* exactly i+1 seconds, in Sign and in StorePrivateKey, so a call that
\* succeeds on attempt k has waited 1+2+...+k seconds in all.
C3_BackoffSeconds ==
    /\ Len(waits) <= Len(responses)
    /\ \A j \in 1..Len(waits) : waits[j] = j /\ Retryable(responses[j].status)
    /\ (VaultReturned /\ result.kind = "ok")
       => (/\ Len(waits) = Len(requests) - 1
           /\ 2 * SumSeq(waits) = (Len(requests) - 1) * Len(requests))

\* Two rejections and then a 200: Sign succeeds having waited 1 s + 2 s.
C3_Witness ==
    /\ op = "SignMessage"
    /\ pc = "done"
    /\ result.kind = "ok"
    /\ Len(requests) = 3
    /\ waits = <<1, 2>>
    /\ SumSeq(waits) = 3

(* ------------------------------------------------------------------ *)
(* C4                                                                  *)
(* ------------------------------------------------------------------ *)

\* C4: a Sign call whose payload is not exactly 32 bytes has already failed
\* with an invalid-argument error and has issued no HTTP request, whatever
\* the signer address and the retry budget.
C4_BadPayloadNoRequest ==
    (op \in SignOps /\ Len(payload) # PayloadLen)
    => (/\ pc = "done"
        /\ result.kind = "error"
        /\ result.err \in InvalidArgumentErrors
        /\ requests = <<>>
        /\ responses = <<>>)

\* Sign returned on a 33-byte payload with a valid address.
C4_Witness ==
    /\ op = "SignMessage"
    /\ Len(payload) = PayloadLen + 1
    /\ address = AddrValid
    /\ pc = "done"
    /\ result = Err("payload must be 32 bytes")

(* ------------------------------------------------------------------ *)
(* C5                                                                  *)
(* ------------------------------------------------------------------ *)

\* C5 (as claimed): a Sign call whose signer address is not a 42-character
\* 0x-prefixed hex string issues no HTTP request and fails with an
\* invalid-argument error.
C5_BadAddressNoRequest ==
    (op \in SignOps /\ ~IsHexAddress(address))
    => (/\ requests = <<>>
        /\ pc = "done" => (result.kind = "error" /\ result.err \in InvalidArgumentErrors))

(* ------------------------------------------------------------------ *)
(* C6                                                                  *)
(* ------------------------------------------------------------------ *)

\* C6: in Sign, a response whose status is none of 200, 429, 503 ends the
\* call on that attempt: the call has returned the unexpected-status error
\* carrying that status and body, no request follows it and no wait follows it.
C6_OtherStatusTerminal ==
    (/\ op \in SignOps \cup {"CreateToken"}
     /\ responses # <<>>
     /\ Last(responses).readOk
     /\ Last(responses).status \notin
            {StatusOK, StatusTooManyRequests, StatusServiceUnavailable})
    => (/\ pc \in {"done", "ct_signed"}
        /\ result = ErrStatus("unexpected status code", Last(responses).status,
                              Last(responses).body)
        /\ Len(requests) = Len(responses)
        /\ Len(waits) = Len(responses) - 1
        /\ slept = 0)

\* A 429, a completed wait, then a 500: Sign returned the 500 with budget left.
C6_Witness ==
    /\ op = "SignMessage"
    /\ pc = "done"
    /\ vault.MaxRetries = defaultMaxRetries
    /\ Len(responses) = 2
    /\ responses[1].status = StatusTooManyRequests
    /\ responses[2].status = 500
    /\ result.status = 500
    /\ result.body = responses[2].body

(* ------------------------------------------------------------------ *)
(* C7                                                                  *)
(* ------------------------------------------------------------------ *)

\* An HTTP attempt was handed to the client and ended without a response.
SendFailed ==
    /\ Len(requests) = Len(responses) + 1
    /\ pc \notin {"sign_do", "store_do"}

\* The body of the last response could not be read (the client's timeout
\* struck, or the connection broke) where the code reads it: always in
\* SignMessage, on a 200 in StorePrivateKey.
BodyReadFailed ==
    /\ responses # <<>>
    /\ ~Last(responses).readOk
    /\ op = "StorePrivateKey" => Last(responses).status = StatusOK

\* C7: in Sign and StorePrivateKey, an attempt that fails at the network level
\* ends the call with an error on that attempt, whatever budget remains: no
\* wait and no further attempt follows it.
C7_NetworkFailureTerminal ==
    /\ SendFailed
       => (/\ pc \in {"done", "ct_signed"}
           /\ result.kind = "error"
           /\ result.err = "failed to send request"
           /\ Len(waits) = Len(responses)
           /\ slept = 0)
    /\ BodyReadFailed
       => (/\ pc \in {"done", "ct_signed"}
           /\ result.kind = "error"
           /\ result.err \in {"failed to read response", "failed to read response body"}
           /\ Len(requests) = Len(responses)
           /\ Len(waits) = Len(responses) - 1
           /\ slept = 0)

\* StorePrivateKey with budget 4: the second attempt failed to send and the
\* call returned, three retries unused.
C7_Witness ==
    /\ op = "StorePrivateKey"
    /\ pc = "done"
    /\ vault.MaxRetries = 4
    /\ Len(requests) = 2
    /\ Len(responses) = 1
    /\ result = ErrWrap("failed to send request", "network")

(* ------------------------------------------------------------------ *)
(* C8                                                                  *)
(* ------------------------------------------------------------------ *)

\* The byte sequences the modelled responses encode after the two characters
\* SignMessage strips (the 0x of the wire contract).
EncodedSignatures ==
    {Bytes(SignatureLen, 5), Bytes(SignatureLen + 1, 5), Bytes(40, 5), Bytes(20, 5),
     Tail(Bytes(SignatureLen + 2, 5))}

\* C8: whenever Sign returns success, the signature is exactly 64 bytes and is
\* the first 64 bytes of what the 200 response's signature field encodes in
\* hex after its two-character prefix; a field encoding more than 64 bytes
\* is truncated, not refused.
C8_First64Bytes ==
    (SignReturned /\ result.kind = "ok")
    => (/\ Len(result.value) = SignatureLen
        /\ Last(responses).status = StatusOK
        /\ \E b \in EncodedSignatures :
              /\ DropPrefix(Last(responses).body.signature, 2) = HexEncodeToString(b)
              /\ Len(b) >= SignatureLen
              /\ result.value = SubSeq(b, 1, SignatureLen))

\* Sign succeeded on a response whose signature field encodes 65 bytes.
C8_Witness ==
    /\ op = "SignMessage"
    /\ pc = "done"
    /\ result.kind = "ok"
    /\ Last(responses).body.signature = SigHex(SignatureLen + 1)
    /\ Len(result.value) = SignatureLen

(* ------------------------------------------------------------------ *)
(* C9                                                                  *)
(* ------------------------------------------------------------------ *)

\* C9: when the context given to SignMessage is cancelled during a backoff
\* wait, the next thing the call does is return the cancellation error: the
\* wait is not completed and no further request is issued.
C9_CancelDuringBackoff ==
    [][(pc = "sign_backoff" /\ ctxKind = "caller" /\ cancelled)
       => (/\ pc' = "done"
           /\ result' = Err("context canceled")
           /\ requests' = requests
           /\ waits' = waits
           /\ slept' = slept
           /\ slept < BackoffSeconds(attempt))]_vars

\* SignMessage returned the cancellation error one second into the
\* two-second wait that followed its second rejection.
C9_Witness ==
    /\ op = "SignMessage"
    /\ pc = "done"
    /\ result = Err("context canceled")
    /\ attempt = 1
    /\ slept = 1
    /\ Len(waits) = 1
    /\ Len(requests) = 2

(* ------------------------------------------------------------------ *)
(* C10                                                                 *)
(* ------------------------------------------------------------------ *)

\* C10 (as claimed): when the context of CreateToken's caller is cancelled
\* while CreateToken is inside the signer's HTTP attempt or backoff wait, the
\* signing call returns to CreateToken instead of continuing the retry loop:
\* its next step is the return, and what it returns is not a signature won by
\* a later attempt (in the most lenient reading any error counts as the
\* cancellation outcome).
C10_CreateTokenCancellation ==
    [][(/\ op = "CreateToken"
        /\ cancelled
        /\ pc \in {"sign_do", "sign_backoff"})
       => (/\ pc' = "ct_signed"
           /\ pc = "sign_backoff" => result'.kind = "error")]_vars

(* ------------------------------------------------------------------ *)
(* Vocabulary of the token service's properties                        *)
(* ------------------------------------------------------------------ *)

\* The position of the first entry the codec refuses; 0 when there is none.
FirstInvalid(vcs) ==
    IF \A i \in 1..Len(vcs) : ParseCredentialOk(vcs[i]) THEN 0
    ELSE CHOOSE i \in 1..Len(vcs) :
            ~ParseCredentialOk(vcs[i]) /\ \A j \in 1..(i - 1) : ParseCredentialOk(vcs[j])

\* CreateToken has called provider.Sign.
SigningReached == op = "CreateToken" /\ token.signCalls = 1

\* VerifyToken has returned.
VerifyReturned == op = "VerifyToken" /\ pc = "done"

\* VerifyToken returned for the very token CreateToken returned, whose proof
\* is the signing service's signature.
RoundTrip ==
    /\ VerifyReturned
    /\ token.signed
    /\ token.presented = SerializePresentation(token.holderDid, token.vcsJwt,
                                               GenuineSignature, address, payload)

\* VerifyToken did not stop on a failure of the codec's or the decoder's own.
NoDecodeFailure == result.err \notin VerifySteps \cup VerifyCredentialSteps

\* The claims of the credential with wire form jwt.
ClaimsOf(jwt) == [Issuer |-> CredContents(jwt).issuer.val,
                  CredentialSubject |-> CredContents(jwt).credentialSubject.val]

MalformedPresentationErrors ==
    {"no verifiableCredential found in VP", "verifiableCredential is not an array"}

(* ------------------------------------------------------------------ *)
(* C11                                                                 *)
(* ------------------------------------------------------------------ *)

\* C11: in every CreateToken call that reaches the signing step, the payload
\* handed to the provider's Sign is the 32-byte SHA-256 digest of the
\* presentation's signing input, never the signing input itself.
C11_SignsDigest ==
    SigningReached =>
        /\ Len(payload) = PayloadLen
        /\ payload = Sha256(token.signData)
        /\ payload # token.signData

\* CreateToken returned a token for two credentials; the request the signing
\* service received carried the digest of the signing input.
C11_Witness ==
    /\ op = "CreateToken"
    /\ pc = "done"
    /\ result.kind = "ok"
    /\ Len(token.vcsJwt) = 2
    /\ Len(token.signData) > PayloadLen
    /\ requests # <<>>
    /\ requests[1].body = SignMessageRequest(Sha256(token.signData))

(* ------------------------------------------------------------------ *)
(* C12                                                                 *)
(* ------------------------------------------------------------------ *)

\* C12 (as claimed): in every CreateToken call that reaches the signing step,
\* the signer address handed to the signing provider is the one derived from
\* the holder identity (what follows its last ':'), whatever else the caller
\* passes.
C12_SignerFromHolder ==
    SigningReached => address = extractAddressFromDID(token.holderDid)

(* ------------------------------------------------------------------ *)
(* C13                                                                 *)
(* ------------------------------------------------------------------ *)

\* C13: extractAddressFromDID returns what follows the last ':' of its input
\* (possibly nothing) when the input has a ':', and the whole input otherwise.
C13_ExtractAddress ==
    (op = "extractAddressFromDID" /\ pc = "done") =>
        LET did == token.holderDid
            r == result.value
        IN IF \E i \in 1..Len(did) : did[i] = ":"
           THEN /\ \A i \in 1..Len(r) : r[i] # ":"
                /\ Len(r) < Len(did)
                /\ did[Len(did) - Len(r)] = ":"
                /\ r = SubSeq(did, Len(did) - Len(r) + 1, Len(did))
           ELSE r = did

\* extractAddressFromDID was applied to a string with two ':' and returned
\* what follows the second.
C13_Witness ==
    /\ op = "extractAddressFromDID"
    /\ pc = "done"
    /\ token.holderDid = <<":", "a", ":", "0">>
    /\ result.value = <<"0">>

(* ------------------------------------------------------------------ *)
(* C14                                                                 *)
(* ------------------------------------------------------------------ *)

\* C14 (as claimed): CreateToken parses the wire forms in order and fails at
\* the first invalid entry, parsing none after it, with a parse error that
\* identifies that entry's position: no list whose first invalid entry is at
\* another position fails with the same error.
C14_ParseErrorNamesPosition ==
    (op = "CreateToken" /\ FirstInvalid(token.vcsJwt) > 0) =>
        /\ pc = "done"
        /\ result.kind = "error"
        /\ result.err = "ParseCredential"
        /\ token.parsed = FirstInvalid(token.vcsJwt)
        /\ token.signCalls = 0
        /\ \A other \in VcsJwts :
              (FirstInvalid(other) > 0 /\ ParseCredentials(other, 1).err = result)
                 => FirstInvalid(other) = FirstInvalid(token.vcsJwt)

(* ------------------------------------------------------------------ *)
(* C15                                                                 *)
(* ------------------------------------------------------------------ *)

\* C15 (as claimed): for a non-empty list of valid credentials and a valid
\* holder, VerifyToken applied to the token CreateToken returned gives a claim
\* list as long as the credential list whose i-th element is the issuer and
\* subject of the i-th credential.
C15_RoundTrip ==
    (RoundTrip /\ Len(token.vcsJwt) > 0 /\ NoDecodeFailure) =>
        /\ result.kind = "ok"
        /\ Len(result.value.items) = Len(token.vcsJwt)
        /\ \A i \in 1..Len(token.vcsJwt) : result.value.items[i] = ClaimsOf(token.vcsJwt[i])

(* ------------------------------------------------------------------ *)
(* C16                                                                 *)
(* ------------------------------------------------------------------ *)

\* C16: VerifyToken returns claims only for a token the codec accepts with
\* proof verification and credential validation both enabled; a token whose
\* proof was tampered with always fails and no claim is returned for it.
C16_OnlyVerifiedTokens ==
    VerifyReturned =>
        /\ result.kind = "ok" =>
              (ProofValid(token.presented) /\ CredentialsValid(token.presented))
        /\ token.presented.proof.sig # GenuineSignature =>
              (result.kind = "error" /\ result.value = NilClaims)

\* VerifyToken refused the token CreateToken had returned for the holder's own
\* key, after one byte of its proof was changed.
C16_Witness ==
    /\ VerifyReturned
    /\ token.signed
    /\ address = extractAddressFromDID(token.holderDid)
    /\ token.presented = TamperProof(SerializePresentation(token.holderDid, token.vcsJwt,
                                         GenuineSignature, address, payload))
    /\ result = VerifyErr(Err("ParseJWTPresentation"))

(* ------------------------------------------------------------------ *)
(* C17                                                                 *)
(* ------------------------------------------------------------------ *)

\* C17: when VerifyToken succeeds it returns one VcClaims per element of the
\* presentation's credential list, in the list's order, duplicates kept.
C17_OneClaimPerCredential ==
    (VerifyReturned /\ result.kind = "ok") =>
        LET list == token.presented.vcField.items
            claims == result.value.items
        IN /\ token.presented.vcField.kind = "list"
           /\ Len(claims) = Len(list)
           /\ \A i \in 1..Len(list) : claims[i] = ClaimsOf(list[i].val)

\* VerifyToken returned two equal claims for a presentation that holds the
\* same credential twice.
C17_Witness ==
    /\ VerifyReturned
    /\ result.kind = "ok"
    /\ token.presented.vcField.items = <<JsonString("vcA"), JsonString("vcA")>>
    /\ result.value.items = <<ClaimsOf("vcA"), ClaimsOf("vcA")>>

(* ------------------------------------------------------------------ *)
(* C18                                                                 *)
(* ------------------------------------------------------------------ *)

\* C18 (as claimed): for a verified presentation whose credential list is
\* present and empty, VerifyToken returns no error and an empty claim sequence
\* that is not nil.
C18_EmptyListNotNil ==
    (/\ VerifyReturned
     /\ ParseJWTPresentationOk(token.presented, VerifyOptions)
     /\ token.presented.vcField = [kind |-> "list", items |-> <<>>]
     /\ NoDecodeFailure)
    => (/\ result.kind = "ok"
        /\ result.value.items = <<>>
        /\ ~result.value.isNil)

(* ------------------------------------------------------------------ *)
(* C19                                                                 *)
(* ------------------------------------------------------------------ *)

\* C19 (as claimed): CreateToken with an empty credential list and a valid
\* holder succeeds: it fails only when a codec step or the remote signing
\* itself fails; it calls the signing step once and the list embedded in its
\* token is empty; VerifyToken on that token returns no error and an empty
\* claim sequence.
C19_EmptyListRoundTrip ==
    /\ (op = "CreateToken" /\ pc = "done" /\ token.vcsJwt = <<>> /\ result.kind = "error")
          => (result.err \in PreSignSteps \cup PostSignSteps \/ requests # <<>>)
    /\ (op = "CreateToken" /\ pc = "done" /\ token.vcsJwt = <<>> /\ result.kind = "ok")
          => (/\ token.signCalls = 1
              /\ result.value.vcField = [kind |-> "list", items |-> <<>>])
    /\ (RoundTrip /\ token.vcsJwt = <<>> /\ NoDecodeFailure)
          => (result.kind = "ok" /\ result.value.items = <<>>)

(* ------------------------------------------------------------------ *)
(* C20                                                                 *)
(* ------------------------------------------------------------------ *)

\* C20: a token that passes the codec's verification but whose contents have
\* no credential-list field, or have one that is not a list, makes VerifyToken
\* fail with a malformed-presentation error and return no claims.
C20_MalformedPresentation ==
    (/\ VerifyReturned
     /\ ParseJWTPresentationOk(token.presented, VerifyOptions)
     /\ token.presented.vcField.kind # "list"
     /\ result.err \notin VerifySteps)
    => (/\ result.kind = "error"
        /\ result.err \in MalformedPresentationErrors
        /\ result.value = NilClaims)

\* VerifyToken refused a properly signed presentation whose
\* verifiableCredential field is an object.
C20_Witness ==
    /\ VerifyReturned
    /\ ParseJWTPresentationOk(token.presented, VerifyOptions)
    /\ token.presented.vcField.kind = "object"
    /\ result = VerifyErr(Err("verifiableCredential is not an array"))

(* ------------------------------------------------------------------ *)
(* C21                                                                 *)
(* ------------------------------------------------------------------ *)

\* The contents of the credential lack issuer or credentialSubject, or carry
\* one of them with the wrong type.
BadClaimFields(jwt) ==
    \/ CredContents(jwt).issuer.type # "string"
    \/ CredContents(jwt).credentialSubject.type # "object"

\* C21 (as claimed): when an embedded credential's contents lack the issuer or
\* the credential-subject field, or carry either with the wrong type,
\* VerifyToken returns an error to its caller: it does not crash and returns
\* no claims.
C21_ClaimExtractionError ==
    (/\ VerifyReturned
     /\ ParseJWTPresentationOk(token.presented, VerifyOptions)
     /\ token.presented.vcField.kind = "list"
     /\ NoDecodeFailure
     /\ \A i \in 1..Len(token.presented.vcField.items) :
           token.presented.vcField.items[i].type = "string"
     /\ \E i \in 1..Len(token.presented.vcField.items) :
           BadClaimFields(token.presented.vcField.items[i].val))
    => (/\ result.kind = "error"
        /\ result.value = NilClaims)

(* ------------------------------------------------------------------ *)
(* C22                                                                 *)
(* ------------------------------------------------------------------ *)

C24_SignOnceAfterPreparation ==
    /\ token.signCalls <= 1
    /\ token.parsed <= Len(token.vcsJwt)
    /\ op = "CreateToken" =>
          /\ token.signCalls = 1 =>
                (/\ FirstInvalid(token.vcsJwt) = 0
                 /\ token.parsed = Len(token.vcsJwt)
                 /\ token.signData = GetSigningInput(token.vcsJwt, token.holderDid))
          /\ token.signCalls = 0 => (requests = <<>> /\ pc = "done" /\ result.kind = "error")
          /\ (pc = "done" /\ result.kind = "error") => result.value = <<>>
          /\ (pc = "done" /\ result.err \in PreSignSteps) =>
                (result.kind = "error" /\ token.signCalls = 0)
          /\ (pc = "done" /\ result.err \in PostSignSteps) =>
                (result.kind = "error" /\ token.signCalls = 1 /\ token.signed)

\* CreateToken failed in Serialize after its one signing call, which took
\* one request.
C24_Witness ==
    /\ op = "CreateToken"
    /\ pc = "done"
    /\ result = Err("Serialize")
    /\ token.signCalls = 1
    /\ Len(requests) = 1

(* ------------------------------------------------------------------ *)
(* C28                                                                 *)
(* ------------------------------------------------------------------ *)

\* The signature field of a 200 body is missing, shorter than the 0x prefix,
\* or decodes to fewer than 64 bytes.
ShortSignature(body) ==
    /\ body.json
    /\ \/ Len(body.signature) < 2
       \/ /\ HexDecodeString(DropPrefix(body.signature, 2)).ok
          /\ Len(HexDecodeString(DropPrefix(body.signature, 2)).bytes) < SignatureLen

\* C28 (as claimed): a 200 response to Sign whose signature field is missing,
\* shorter than the 0x prefix or decodes to fewer than 64 bytes makes Sign
\* return an error; Sign never crashes and never returns a signature shorter
\* than 64 bytes.
C28_ShortSignatureIsError ==
    SignReturned =>
        /\ result.kind # "panic"
        /\ result.kind = "ok" => Len(result.value) >= SignatureLen
        /\ (/\ responses # <<>>
            /\ Last(responses).status = StatusOK
            /\ Last(responses).readOk
            /\ ShortSignature(Last(responses).body)) => result.kind = "error"

(* ------------------------------------------------------------------ *)
(* C29                                                                 *)
(* ------------------------------------------------------------------ *)

\* C29: VerifyToken is all-or-nothing: whenever it returns an error the claim
\* list it returns is nil, also when the failure is at a later credential
\* after earlier ones were extracted; it never returns a partial list.
C29_AllOrNothing ==
    (VerifyReturned /\ result.kind = "error") =>
        (result.value.isNil /\ result.value.items = <<>>)

\* VerifyToken failed on the second credential of a presentation, after the
\* claims of the first were extracted, and returned nil.
C29_Witness ==
    /\ VerifyReturned
    /\ token.presented.vcField.items = <<JsonString("vcA"), JsonString("vcB")>>
    /\ result = VerifyErr(ErrWrap("credential.GetContents", "vcB"))

(* ------------------------------------------------------------------ *)
(* C23                                                                 *)
(* ------------------------------------------------------------------ *)

StatusesOf(rs) == [i \in 1..Len(rs) |-> rs[i].status]

\* What SignMessage's loop does from attempt att on when its requests are
\* answered with the given statuses: the attempts it issues, the waits it
\* performs and the class of its outcome ("open" when it asks for a response
\* the sequence does not hold).
RECURSIVE SignPolicy(_, _, _)
SignPolicy(v, statuses, att) ==
    IF att > v.MaxRetries
    THEN [attempts |-> att, waits |-> <<>>, class |-> "retry exhausted"]
    ELSE IF att + 1 > Len(statuses)
    THEN [attempts |-> att + 1, waits |-> <<>>, class |-> "open"]
    ELSE IF SignShouldRetry(statuses[att + 1], att, v)
    THEN [SignPolicy(v, statuses, att + 1) EXCEPT !.waits = <<BackoffSeconds(att)>> \o @]
    ELSE [attempts |-> att + 1, waits |-> <<>>,
          class |-> IF statuses[att + 1] = StatusOK THEN "success"
                    ELSE "terminal status error"]

\* The class of the outcome r a Vault method returned after the responses rs.
OutcomeClassOf(r, rs) ==
    IF r.err \in {"max retries exceeded", "max retries exceeded for request"}
    THEN "retry exhausted"
    ELSE IF r.err = "unexpected status code" THEN "terminal status error"
    ELSE IF rs # <<>> /\ Last(rs).status = StatusOK THEN "success"
    ELSE "other"

OutcomeClass == OutcomeClassOf(result, responses)

\* A Vault method returned, and on the statuses of its responses alone: no
\* cancellation, no failed send, no failed read.
ReturnedOnStatuses ==
    /\ pc = "done"
    /\ ~cancelled
    /\ Len(responses) = Len(requests)
    /\ \A i \in 1..Len(responses) : responses[i].readOk

\* SignMessage does what SignPolicy says.
SignFollowsSignPolicy ==
    (op = "SignMessage" /\ ReturnedOnStatuses /\ requests # <<>>) =>
        /\ Len(requests) = SignPolicy(vault, StatusesOf(responses), 0).attempts
        /\ waits = SignPolicy(vault, StatusesOf(responses), 0).waits
        /\ OutcomeClass = SignPolicy(vault, StatusesOf(responses), 0).class

\* C23 (as claimed): StorePrivateKey follows the retry policy of Sign: for
\* every retry budget and every sequence of statuses, fed the statuses a
\* StorePrivateKey call was answered with, Sign issues as many attempts,
\* performs the same waits and ends in the same class of outcome.
C23_StoreFollowsSignPolicy ==
    (op = "StorePrivateKey" /\ ReturnedOnStatuses) =>
        /\ Len(requests) = SignPolicy(vault, StatusesOf(responses), 0).attempts
        /\ waits = SignPolicy(vault, StatusesOf(responses), 0).waits
        /\ OutcomeClass = SignPolicy(vault, StatusesOf(responses), 0).class

(* ------------------------------------------------------------------ *)
(* C26                                                                 *)
(* ------------------------------------------------------------------ *)

\* C26 (as claimed): in Sign, for every retry budget R, a backoff wait happens
\* only when budget remains, so that another attempt follows it; a 429/503 on
\* the last permitted attempt leads to the retry-exhausted outcome with no
\* wait after it.
C26_WaitOnlyWithBudget ==
    /\ pc = "sign_backoff" => attempt < vault.MaxRetries
    /\ (/\ SignReturned
        /\ ~cancelled
        /\ Len(responses) = vault.MaxRetries + 1
        /\ Len(requests) = Len(responses)
        /\ AllRejected(responses))
       => (/\ result = Err("max retries exceeded")
           /\ Len(waits) = vault.MaxRetries)

(* ------------------------------------------------------------------ *)
(* C30                                                                 *)
(* ------------------------------------------------------------------ *)

\* The retry budget the rule of the constructors gives for an optional
\* max-retries argument.
EffectiveRetries(arg) == IF arg = <<>> THEN 3 ELSE IF arg[1] < 0 THEN 3 ELSE arg[1]

\* C30 (as claimed): the retry budget R of a signer is the configured value
\* when one is given and is >= 0, and 3 when none is given or it is negative,
\* from NewVault and from NewVaultProvider alike; and the retry loop of Sign
\* uses that R: while a request is out, a 429 or 503 answer to it would be
\* retried exactly when the attempt's number is below R.
C30_EffectiveRetryBudget ==
    /\ \A a \in RetryArgs :
          /\ NewVault(VaultAddress, VaultToken, a).MaxRetries = EffectiveRetries(a)
          /\ NewVaultProvider(VaultAddress, VaultToken, a).vault.MaxRetries
                = EffectiveRetries(a)
    /\ pc = "sign_do" =>
          \A st \in {StatusTooManyRequests, StatusServiceUnavailable} :
              SignShouldRetry(st, attempt, vault) <=> attempt < vault.MaxRetries

(* ------------------------------------------------------------------ *)
(* C27                                                                 *)
(* ------------------------------------------------------------------ *)

CallOnItsOwn(c) ==
    /\ calls[c].attempt = Len(calls[c].waits)
    /\ Len(calls[c].requests) \in {Len(calls[c].responses), Len(calls[c].responses) + 1}
    /\ \A i \in 1..Len(calls[c].requests) :
          calls[c].requests[i] = NewRequest(vault, SignEndpoint(vault, calls[c].address),
                                            SignMessageRequest(calls[c].payload))
    /\ (/\ calls[c].pc = "done"
        /\ calls[c].address # <<>>
        /\ SignMessageArgError(calls[c].payload, calls[c].address) = ""
        /\ Len(calls[c].requests) = Len(calls[c].responses))
       => LET policy == SignPolicy(vault, StatusesOf(calls[c].responses), 0)
          IN /\ Len(calls[c].requests) = policy.attempts
             /\ calls[c].waits = policy.waits
             /\ OutcomeClassOf(calls[c].result, calls[c].responses) = policy.class

\* C25: concurrent Sign calls on one shared provider do not interfere: no
\* step of a call writes the provider's endpoint, token or retry budget, each
\* call keeps its own attempt counter, and under every interleaving the
\* attempts and the outcome of a call are determined by the responses to its
\* own requests.
C25_NoInterference ==
    /\ [][vault' = vault]_vars
    /\ [](\A c \in Callers : CallOnItsOwn(c))

\* One caller has returned a signature after one retry while the other is in
\* the backoff wait after its second rejection.
C25_Witness ==
    /\ calls["c1"].pc = "done"
    /\ calls["c1"].result.kind = "ok"
    /\ Len(calls["c1"].requests) = 2
    /\ calls["c2"].pc = "sign_backoff"
    /\ calls["c2"].attempt = 1
    /\ Len(calls["c2"].requests) = 2

====
